---------------------------- MODULE Spec2Model ----------------------------
(***************************************************************************)
(* Faculty feedback backend: the Flask handlers of app.py and the admin    *)
(* provisioning tool create_admin.py, over one client session and one      *)
(* MySQL database.                                                         *)
(*                                                                         *)
(* Every request is one atomic step.  Each step records the request it     *)
(* served (req), the response it produced (resp) and what it did to the    *)
(* data layer (io), so that properties of a single request can be stated.  *)
(* Columns and request fields that no handler branches on (names, emails,  *)
(* ratings, comments, branch/year/semester filters) are left out.          *)
(***************************************************************************)
EXTENDS Integers, Sequences, FiniteSets, TLC

VARIABLES
    students,   \* rows of table students: [student_id, roll_number, password_hash]
    admins,     \* rows of table admins: [admin_id, username, password_hash]
    feedback,   \* feedback[<<student_id, assignment_id>>] = number of feedback rows
    session,    \* the Flask session dict of the client: key -> identity id
    openConns,  \* connections opened by finished requests and never closed
    req,        \* the last request served
    resp,       \* the response to it
    io          \* what the last request did to the data layer

vars == <<students, admins, feedback, session, openConns, req, resp, io>>

----------------------------------------------------------------------------
(* Input domains *)

\* roll numbers a client may send
Rolls == {"R100", "R200"}

\* the (roll number, password) pairs students register with
Registrations == {<<"R100", "pw1">>, <<"R200", "pw2">>}

\* passwords a client may send to the student endpoints
Passwords == {"pw1", "pw2"}

\* salts generate_password_hash may draw
Salts == {"s1"}

\* assignment ids a client may put in the feedback URL
Assignments == {1}

\* what the operator may type at the create_admin prompts, as character sequences
RawUsernames == {<<" ">>, <<" ", "a">>, <<"a">>, <<"b", " ">>}
RawPasswords == {<<>>, <<"p", " ">>}
RawConfirms == {<<"p">>, <<"q">>}

\* teacher ids a client may put in the summary URL
Teachers == {1}

\* what a client may send to /admin/login
LoginUsernames == {<<"a">>, <<"b">>}
LoginPasswords == {<<"p">>, <<"q">>}

\* how the database may misbehave during one request: not at all, refuse the
\* connection, or raise on the k-th statement
Faults == {"none", "connect", "stmt1"}
DropdownFaults == Faults \cup {"stmt2", "stmt3"}

\* most connections the model lets leak before it stops exploring leaks
MaxOpenConns == 1

----------------------------------------------------------------------------
(* Library primitives *)

RECURSIVE LStrip(_)
LStrip(s) == IF s # <<>> /\ Head(s) = " " THEN LStrip(Tail(s)) ELSE s

RECURSIVE RStrip(_)
RStrip(s) == IF s # <<>> /\ s[Len(s)] = " " THEN RStrip(SubSeq(s, 1, Len(s) - 1)) ELSE s

\* str.strip()
Strip(s) == RStrip(LStrip(s))

\* the salted digest werkzeug stores
Digest(salt, password) == <<"digest", salt, password>>

generate_password_hash(password, salt) == [salt |-> salt, digest |-> Digest(salt, password)]

check_password_hash(pwhash, password) == pwhash.digest = Digest(pwhash.salt, password)

\* exceptions
NoException == [type |-> "none", errno |-> 0, message |-> ""]
NoneTypeError ==
    [type |-> "AttributeError", errno |-> 0,
     message |-> "'NoneType' object has no attribute 'cursor'"]
ConnectError ==
    [type |-> "mysql.connector.Error", errno |-> 2003,
     message |-> "2003: Can't connect to MySQL server"]
StatementError ==
    [type |-> "mysql.connector.Error", errno |-> 1317,
     message |-> "1317 (70100): Query execution was interrupted"]
DuplicateEntry ==
    [type |-> "mysql.connector.Error", errno |-> 1062,
     message |-> "1062 (23000): Duplicate entry"]

\* str(e)
Str(e) == e.message

----------------------------------------------------------------------------
(* Responses *)

\* jsonify(obj), status
Json(code, obj) == [code |-> code, json |-> obj]

\* an exception that leaves the handler: Flask answers 500
Unhandled(e) == [code |-> 500, unhandled |-> e]

ErrorPayload(message) == Json(200, [status |-> "error", message |-> message])
SuccessPayload(message) == Json(200, [status |-> "success", message |-> message])
NotLoggedIn == Json(401, [status |-> "error", message |-> "Not logged in"])
InvalidCredentials == ErrorPayload("Invalid credentials")

\* io of a request: connections opened and closed, statements and procedure
\* calls issued, commits, and the last exception raised while the request used
\* the data layer
Io(opened, closed, stmts, commits, exc) ==
    [opened |-> opened, closed |-> closed, stmts |-> stmts, commits |-> commits,
     exc |-> exc]

NoIo == Io(0, 0, 0, 0, NoException)

----------------------------------------------------------------------------
(* Database *)

\* get_db_connection(): the connection, or None when connect raises
get_db_connection(fault) == IF fault = "connect" THEN "None" ELSE "conn"

\* the row SELECT * FROM students WHERE roll_number=%s fetches, as a set
SelectStudent(roll_number) == {s \in students : s.roll_number = roll_number}

\* the row SELECT * FROM admins WHERE username=%s fetches, as a set
SelectAdmin(username) == {a \in admins : a.username = username}

\* AUTO_INCREMENT keys
NextStudentId == Cardinality(students) + 1
NextAdminId == Cardinality(admins) + 1

\* unique key of students.roll_number
StudentRollTaken(roll_number) == SelectStudent(roll_number) # {}

\* unique key of admins.username
AdminUsernameTaken(username) == SelectAdmin(username) # {}

\* unique key of feedback (student_id, assignment_id) inside submit_feedback
FeedbackExists(student_id, assignment_id) ==
    <<student_id, assignment_id>> \in DOMAIN feedback
        /\ feedback[<<student_id, assignment_id>>] > 0

\* the exception a procedure call raises, NoException when it runs through
ProcException(proc_name, params, fault) ==
    IF fault = "stmt1" THEN StatementError
    ELSE IF proc_name = "submit_feedback" /\ FeedbackExists(params[1], params[2])
         THEN DuplicateEntry
    ELSE NoException

\* call_stored_procedure calling the procedure a second time after it raised
call_stored_procedure_retry(proc_name, params, fault) ==
    IF get_db_connection(fault) = "None"
    THEN Io(0, 0, 0, 0, NoneTypeError)
    ELSE LET e == ProcException(proc_name, params, fault) IN
         IF e # NoException
         THEN Io(1, 1, 2, 0, e)
         ELSE Io(1, 1, 1, 1, NoException)

\* call_stored_procedure(proc_name, params): the exception it raises and its io
call_stored_procedure(proc_name, params, fault) ==
    IF get_db_connection(fault) = "None"
    THEN Io(0, 0, 0, 0, NoneTypeError)
    ELSE LET e == ProcException(proc_name, params, fault) IN
         IF e # NoException
         THEN Io(1, 1, 1, 0, e)
         ELSE Io(1, 1, 1, 1, NoException)

\* the feedback table after submit_feedback committed a row
FeedbackInsert(student_id, assignment_id) ==
    LET k == <<student_id, assignment_id>> IN
    [p \in DOMAIN feedback \cup {k} |->
        IF p = k THEN (IF k \in DOMAIN feedback THEN feedback[k] ELSE 0) + 1
        ELSE feedback[p]]

----------------------------------------------------------------------------
(* Session *)

\* session.get(key) is truthy
SessionHas(sess, key) == key \in DOMAIN sess /\ sess[key] # 0

\* session[key] = value
SessionSet(sess, key, value) ==
    [k \in DOMAIN sess \cup {key} |-> IF k = key THEN value ELSE sess[k]]

----------------------------------------------------------------------------
(* Handlers: each gives the response, the session and the io of one request *)

Outcome(r, sess, i) == [resp |-> r, session |-> sess, io |-> i]

\* POST /student/register
student_register(roll_number, password, salt, fault) ==
    IF get_db_connection(fault) = "None"
    THEN Outcome(Unhandled(NoneTypeError), session, Io(0, 0, 0, 0, NoneTypeError))
    ELSE IF fault = "stmt1"
    THEN Outcome(ErrorPayload(Str(StatementError)), session,
                 Io(1, 1, 1, 0, StatementError))
    ELSE IF StudentRollTaken(roll_number)
    THEN Outcome(ErrorPayload(Str(DuplicateEntry)), session,
                 Io(1, 1, 1, 0, DuplicateEntry))
    ELSE Outcome(SuccessPayload("Student registered successfully"), session,
                 Io(1, 1, 1, 1, NoException))

\* student_login without the password check
student_login_any_password(roll_number, password, fault) ==
    IF get_db_connection(fault) = "None"
    THEN Outcome(Unhandled(NoneTypeError), session, Io(0, 0, 0, 0, NoneTypeError))
    ELSE IF fault = "stmt1"
    THEN Outcome(Unhandled(StatementError), session, Io(1, 0, 1, 0, StatementError))
    ELSE LET found == SelectStudent(roll_number) IN
         IF found # {}
         THEN LET student == CHOOSE s \in found : TRUE IN
              Outcome(Json(200, [status |-> "success", message |-> "Login successful",
                                 student_id |-> student.student_id]),
                      SessionSet(session, "student_id", student.student_id),
                      Io(1, 1, 1, 0, NoException))
         ELSE Outcome(InvalidCredentials, session, Io(1, 1, 1, 0, NoException))

\* POST /student/login
student_login(roll_number, password, fault) ==
    IF get_db_connection(fault) = "None"
    THEN Outcome(Unhandled(NoneTypeError), session, Io(0, 0, 0, 0, NoneTypeError))
    ELSE IF fault = "stmt1"
    THEN Outcome(Unhandled(StatementError), session, Io(1, 0, 1, 0, StatementError))
    ELSE LET found == SelectStudent(roll_number) IN
         IF found # {} /\ check_password_hash((CHOOSE s \in found : TRUE).password_hash,
                                              password)
         THEN LET student == CHOOSE s \in found : TRUE IN
              Outcome(Json(200, [status |-> "success", message |-> "Login successful",
                                 student_id |-> student.student_id]),
                      SessionSet(session, "student_id", student.student_id),
                      Io(1, 1, 1, 0, NoException))
         ELSE Outcome(InvalidCredentials, session, Io(1, 1, 1, 0, NoException))

\* student_dashboard without the session check
student_dashboard_unchecked(fault) ==
    IF get_db_connection(fault) = "None"
    THEN Outcome(Unhandled(NoneTypeError), session, Io(0, 0, 0, 0, NoneTypeError))
    ELSE IF fault = "stmt1"
    THEN Outcome(Unhandled(StatementError), session, Io(1, 0, 1, 0, StatementError))
    ELSE Outcome(Json(200, [rows |-> "assignments"]), session,
                 Io(1, 1, 1, 0, NoException))

\* GET /student/dashboard
student_dashboard(fault) ==
    IF ~SessionHas(session, "student_id")
    THEN Outcome(NotLoggedIn, session, NoIo)
    ELSE IF get_db_connection(fault) = "None"
    THEN Outcome(Unhandled(NoneTypeError), session, Io(0, 0, 0, 0, NoneTypeError))
    ELSE IF fault = "stmt1"
    THEN Outcome(Unhandled(StatementError), session, Io(1, 0, 1, 0, StatementError))
    ELSE Outcome(Json(200, [rows |-> "assignments"]), session,
                 Io(1, 1, 1, 0, NoException))

\* student_feedback answering success whatever the procedure call did
student_feedback_swallow(assignment_id, fault) ==
    IF ~SessionHas(session, "student_id")
    THEN Outcome(NotLoggedIn, session, NoIo)
    ELSE LET called == call_stored_procedure("submit_feedback",
                           <<session["student_id"], assignment_id>>, fault) IN
         Outcome(SuccessPayload("Feedback submitted successfully"), session, called)

\* POST /student/feedback/<assignment_id>
student_feedback(assignment_id, fault) ==
    IF ~SessionHas(session, "student_id")
    THEN Outcome(NotLoggedIn, session, NoIo)
    ELSE LET called == call_stored_procedure("submit_feedback",
                           <<session["student_id"], assignment_id>>, fault) IN
         IF called.exc # NoException
         THEN Outcome(ErrorPayload(Str(called.exc)), session, called)
         ELSE Outcome(SuccessPayload("Feedback submitted successfully"), session, called)

\* admin_login telling an unknown username from a wrong password
admin_login_unknown_user(username, password, fault) ==
    IF get_db_connection(fault) = "None"
    THEN Outcome(Unhandled(NoneTypeError), session, Io(0, 0, 0, 0, NoneTypeError))
    ELSE IF fault = "stmt1"
    THEN Outcome(Unhandled(StatementError), session, Io(1, 0, 1, 0, StatementError))
    ELSE LET found == SelectAdmin(username) IN
         IF found = {}
         THEN Outcome(ErrorPayload("Unknown username"), session,
                      Io(1, 1, 1, 0, NoException))
         ELSE IF check_password_hash((CHOOSE a \in found : TRUE).password_hash, password)
         THEN LET admin == CHOOSE a \in found : TRUE IN
              Outcome(SuccessPayload("Login successful"),
                      SessionSet(session, "admin_id", admin.admin_id),
                      Io(1, 1, 1, 0, NoException))
         ELSE Outcome(InvalidCredentials, session, Io(1, 1, 1, 0, NoException))

\* admin_login starting a fresh session on success
admin_login_clears_session(username, password, fault) ==
    IF get_db_connection(fault) = "None"
    THEN Outcome(Unhandled(NoneTypeError), session, Io(0, 0, 0, 0, NoneTypeError))
    ELSE IF fault = "stmt1"
    THEN Outcome(Unhandled(StatementError), session, Io(1, 0, 1, 0, StatementError))
    ELSE LET found == SelectAdmin(username) IN
         IF found # {} /\ check_password_hash((CHOOSE a \in found : TRUE).password_hash,
                                              password)
         THEN LET admin == CHOOSE a \in found : TRUE IN
              Outcome(SuccessPayload("Login successful"),
                      SessionSet(<<>>, "admin_id", admin.admin_id),
                      Io(1, 1, 1, 0, NoException))
         ELSE Outcome(InvalidCredentials, session, Io(1, 1, 1, 0, NoException))

\* POST /admin/login
admin_login(username, password, fault) ==
    IF get_db_connection(fault) = "None"
    THEN Outcome(Unhandled(NoneTypeError), session, Io(0, 0, 0, 0, NoneTypeError))
    ELSE IF fault = "stmt1"
    THEN Outcome(Unhandled(StatementError), session, Io(1, 0, 1, 0, StatementError))
    ELSE LET found == SelectAdmin(username) IN
         IF found # {} /\ check_password_hash((CHOOSE a \in found : TRUE).password_hash,
                                              password)
         THEN LET admin == CHOOSE a \in found : TRUE IN
              Outcome(SuccessPayload("Login successful"),
                      SessionSet(session, "admin_id", admin.admin_id),
                      Io(1, 1, 1, 0, NoException))
         ELSE Outcome(InvalidCredentials, session, Io(1, 1, 1, 0, NoException))

\* GET /admin/dashboard
admin_dashboard(fault) ==
    IF get_db_connection(fault) = "None"
    THEN Outcome(Unhandled(NoneTypeError), session, Io(0, 0, 0, 0, NoneTypeError))
    ELSE IF fault = "stmt1"
    THEN Outcome(Unhandled(StatementError), session, Io(1, 0, 1, 0, StatementError))
    ELSE Outcome(Json(200, [rows |-> "teachers"]), session, Io(1, 1, 1, 0, NoException))

\* GET /admin/teacher/<teacher_id>/summary
admin_teacher_summary(teacher_id, fault) ==
    LET called == call_stored_procedure("generate_teacher_summary", <<teacher_id>>, fault) IN
    IF called.exc # NoException
    THEN Outcome(Unhandled(called.exc), session, called)
    ELSE Outcome(Json(200, [rows |-> "summary"]), session, called)

\* GET /api/dropdowns
get_dropdown_data(fault) ==
    IF get_db_connection(fault) = "None"
    THEN Outcome(Json(500, [error |-> "Database connection failed"]), session,
                 Io(0, 0, 0, 0, ConnectError))
    ELSE IF fault = "stmt1"
    THEN Outcome(Unhandled(StatementError), session, Io(1, 0, 1, 0, StatementError))
    ELSE IF fault = "stmt2"
    THEN Outcome(Unhandled(StatementError), session, Io(1, 0, 2, 0, StatementError))
    ELSE IF fault = "stmt3"
    THEN Outcome(Unhandled(StatementError), session, Io(1, 0, 3, 0, StatementError))
    ELSE Outcome(Json(200, [rows |-> "dropdowns"]), session, Io(1, 1, 3, 0, NoException))

\* GET /
home == Outcome([code |-> 200, text |-> "Faculty Feedback System Backend is running!"],
                session, NoIo)

\* what create_admin prints
Printed(message) == [code |-> 0, printed |-> message]

\* create_admin without the comparison of the password with its confirmation
create_admin_unconfirmed(raw_username, raw_password, raw_confirm, salt, fault) ==
    LET username == Strip(raw_username)
        password == Strip(raw_password)
    IN  IF username = <<>> \/ password = <<>>
        THEN Outcome(Printed("[Error] Username and password cannot be empty."),
                     session, NoIo)
        ELSE IF fault = "connect"
        THEN Outcome(Printed("[Error] A database error occurred"), session,
                     Io(0, 0, 0, 0, ConnectError))
        ELSE IF fault = "stmt1"
        THEN Outcome(Printed("[Error] A database error occurred"), session,
                     Io(1, 1, 1, 0, StatementError))
        ELSE IF AdminUsernameTaken(username)
        THEN Outcome(Printed("[Error] An admin with the username already exists."),
                     session, Io(1, 1, 1, 0, DuplicateEntry))
        ELSE Outcome(Printed("[Success] Administrator created successfully!"), session,
                     Io(1, 1, 1, 1, NoException))

\* create_admin.py: one run of the provisioning tool
create_admin(raw_username, raw_password, raw_confirm, salt, fault) ==
    LET username == Strip(raw_username)
        password == Strip(raw_password)
        confirm_password == Strip(raw_confirm)
    IN  IF username = <<>> \/ password = <<>>
        THEN Outcome(Printed("[Error] Username and password cannot be empty."),
                     session, NoIo)
        ELSE IF password # confirm_password
        THEN Outcome(Printed("[Error] Passwords do not match."), session, NoIo)
        ELSE IF fault = "connect"
        THEN Outcome(Printed("[Error] A database error occurred"), session,
                     Io(0, 0, 0, 0, ConnectError))
        ELSE IF fault = "stmt1"
        THEN Outcome(Printed("[Error] A database error occurred"), session,
                     Io(1, 1, 1, 0, StatementError))
        ELSE IF AdminUsernameTaken(username)
        THEN Outcome(Printed("[Error] An admin with the username already exists."),
                     session, Io(1, 1, 1, 0, DuplicateEntry))
        ELSE Outcome(Printed("[Success] Administrator created successfully!"), session,
                     Io(1, 1, 1, 1, NoException))

----------------------------------------------------------------------------
(* Requests *)

\* the handler a request went to and the identifier it carried
Request(handler, ident) == [handler |-> handler, ident |-> ident]

\* a request ends: its response, session and io are recorded, and the
\* connections it left open are added to the leaked ones
Finish(out) ==
    /\ resp' = out.resp
    /\ session' = out.session
    /\ io' = out.io
    /\ openConns + out.io.opened - out.io.closed <= MaxOpenConns
    /\ openConns' = openConns + out.io.opened - out.io.closed

StudentRegisterReq(roll_number, password, salt, fault) ==
    \E out \in {student_register(roll_number, password, salt, fault)} :
    /\ req' = Request("student_register", <<roll_number>>)
    /\ students' =
          IF out.io.commits = 1
          THEN students \cup
                 {[student_id |-> NextStudentId, roll_number |-> roll_number,
                   password_hash |-> generate_password_hash(password, salt)]}
          ELSE students
    /\ Finish(out)
    /\ UNCHANGED <<admins, feedback>>

StudentLoginReq(roll_number, password, fault) ==
    /\ req' = Request("student_login", <<roll_number>>)
    /\ \E out \in {student_login(roll_number, password, fault)} : Finish(out)
    /\ UNCHANGED <<students, admins, feedback>>

StudentDashboardReq(fault) ==
    /\ req' = Request("student_dashboard", <<>>)
    /\ \E out \in {student_dashboard(fault)} : Finish(out)
    /\ UNCHANGED <<students, admins, feedback>>

StudentFeedbackReq(assignment_id, fault) ==
    \E out \in {student_feedback(assignment_id, fault)} :
    /\ req' = Request("student_feedback", <<assignment_id>>)
    /\ feedback' =
          IF out.io.commits = 1
          THEN FeedbackInsert(session["student_id"], assignment_id)
          ELSE feedback
    /\ Finish(out)
    /\ UNCHANGED <<students, admins>>

AdminLoginReq(username, password, fault) ==
    /\ req' = Request("admin_login", <<username>>)
    /\ \E out \in {admin_login(username, password, fault)} : Finish(out)
    /\ UNCHANGED <<students, admins, feedback>>

AdminDashboardReq(fault) ==
    /\ req' = Request("admin_dashboard", <<>>)
    /\ \E out \in {admin_dashboard(fault)} : Finish(out)
    /\ UNCHANGED <<students, admins, feedback>>

AdminTeacherSummaryReq(teacher_id, fault) ==
    /\ req' = Request("admin_teacher_summary", <<teacher_id>>)
    /\ \E out \in {admin_teacher_summary(teacher_id, fault)} : Finish(out)
    /\ UNCHANGED <<students, admins, feedback>>

GetDropdownDataReq(fault) ==
    /\ req' = Request("get_dropdown_data", <<>>)
    /\ \E out \in {get_dropdown_data(fault)} : Finish(out)
    /\ UNCHANGED <<students, admins, feedback>>

CreateAdminRun(raw_username, raw_password, raw_confirm, salt, fault) ==
    \E out \in {create_admin(raw_username, raw_password, raw_confirm, salt, fault)} :
    /\ req' = Request("create_admin", <<raw_username>>)
    /\ admins' =
          IF out.io.commits = 1
          THEN admins \cup
                 {[admin_id |-> NextAdminId, username |-> Strip(raw_username),
                   password_hash |-> generate_password_hash(Strip(raw_password), salt)]}
          ELSE admins
    /\ Finish(out)
    /\ UNCHANGED <<students, feedback>>

StudentRegister ==
    \E registration \in Registrations, salt \in Salts, fault \in Faults :
        StudentRegisterReq(registration[1], registration[2], salt, fault)

StudentLogin ==
    \E roll_number \in Rolls, password \in Passwords, fault \in Faults :
        StudentLoginReq(roll_number, password, fault)

StudentDashboard == \E fault \in Faults : StudentDashboardReq(fault)

StudentFeedback ==
    \E assignment_id \in Assignments, fault \in Faults :
        StudentFeedbackReq(assignment_id, fault)

AdminLogin ==
    \E username \in LoginUsernames, password \in LoginPasswords, fault \in Faults :
        AdminLoginReq(username, password, fault)

AdminDashboard == \E fault \in Faults : AdminDashboardReq(fault)

AdminTeacherSummary ==
    \E teacher_id \in Teachers, fault \in Faults :
        AdminTeacherSummaryReq(teacher_id, fault)

GetDropdownData == \E fault \in DropdownFaults : GetDropdownDataReq(fault)

Home ==
    /\ req' = Request("home", <<>>)
    /\ Finish(home)
    /\ UNCHANGED <<students, admins, feedback>>

CreateAdmin ==
    \E raw_username \in RawUsernames, raw_password \in RawPasswords,
       raw_confirm \in RawConfirms, salt \in Salts, fault \in Faults :
        CreateAdminRun(raw_username, raw_password, raw_confirm, salt, fault)

----------------------------------------------------------------------------

Init ==
    /\ students = {}
    /\ admins = {}
    /\ feedback = <<>>
    /\ session = <<>>
    /\ openConns = 0
    /\ req = Request("none", <<>>)
    /\ resp = Json(200, [status |-> "none", message |-> ""])
    /\ io = NoIo

Next ==
    \/ StudentRegister
    \/ StudentLogin
    \/ StudentDashboard
    \/ StudentFeedback
    \/ AdminLogin
    \/ AdminDashboard
    \/ AdminTeacherSummary
    \/ GetDropdownData
    \/ Home
    \/ CreateAdmin

Spec == Init /\ [][Next]_vars

----------------------------------------------------------------------------
(* Properties *)

StudentEndpoints == {"student_dashboard", "student_feedback"}

Endpoints ==
    {"student_register", "student_login", "student_dashboard", "student_feedback",
     "admin_login", "admin_dashboard", "admin_teacher_summary", "get_dropdown_data",
     "home"}

\* the stored student the credentials belong to, as a set
StudentVerified(roll_number, password) ==
    {s \in SelectStudent(roll_number) : check_password_hash(s.password_hash, password)}

\* the stored admin the credentials belong to, as a set
AdminVerified(username, password) ==
    {a \in SelectAdmin(username) : check_password_hash(a.password_hash, password)}

\* C1: with no student_id in the session, a request to /student/dashboard or
\* /student/feedback/<id> answers 401 "Not logged in", opens no connection, issues
\* no statement or procedure call, and leaves the database and the session as
\* they were, whatever the database would have done.
C1_Unauthenticated ==
    [][(req'.handler \in StudentEndpoints /\ ~SessionHas(session, "student_id"))
        => /\ resp' = NotLoggedIn
           /\ io' = NoIo
           /\ UNCHANGED <<students, admins, feedback, session, openConns>>]_vars

C1_Witness ==
    /\ req.handler = "student_feedback"
    /\ ~SessionHas(session, "student_id")
    /\ students # {}
    /\ resp = NotLoggedIn

\* C2 as stated: a login whose identifier is stored and whose password verifies
\* leaves the session identity equal to the id of that record; any other login
\* leaves the session as it was.
C2_LoginAlwaysEstablishes ==
    [][/\ req'.handler = "student_login" =>
          \A roll_number \in Rolls, password \in Passwords, fault \in Faults :
            StudentLoginReq(roll_number, password, fault) =>
                IF StudentVerified(roll_number, password) # {}
                THEN /\ SessionHas(session', "student_id")
                     /\ \E s \in StudentVerified(roll_number, password) :
                            session'["student_id"] = s.student_id
                ELSE session' = session
       /\ req'.handler = "admin_login" =>
          \A username \in LoginUsernames, password \in LoginPasswords, fault \in Faults :
            AdminLoginReq(username, password, fault) =>
                IF AdminVerified(username, password) # {}
                THEN /\ SessionHas(session', "admin_id")
                     /\ \E a \in AdminVerified(username, password) :
                            session'["admin_id"] = a.admin_id
                ELSE session' = session]_vars

\* C2 amended: when the lookup completes (the connection opens and the SELECT does
\* not raise), the identifier is stored and the password verifies, the session
\* identity after the request is the id of that record; in every other case the
\* request leaves the session as it was.
C2_LoginEstablishes ==
    [][/\ req'.handler = "student_login" =>
          \A roll_number \in Rolls, password \in Passwords, fault \in Faults :
            StudentLoginReq(roll_number, password, fault) =>
                IF fault = "none" /\ StudentVerified(roll_number, password) # {}
                THEN /\ SessionHas(session', "student_id")
                     /\ \E s \in StudentVerified(roll_number, password) :
                            session'["student_id"] = s.student_id
                     /\ resp'.json.student_id = session'["student_id"]
                ELSE session' = session
       /\ req'.handler = "admin_login" =>
          \A username \in LoginUsernames, password \in LoginPasswords, fault \in Faults :
            AdminLoginReq(username, password, fault) =>
                IF fault = "none" /\ AdminVerified(username, password) # {}
                THEN /\ SessionHas(session', "admin_id")
                     /\ \E a \in AdminVerified(username, password) :
                            session'["admin_id"] = a.admin_id
                ELSE session' = session]_vars

C2_Witness ==
    /\ req.handler = "student_login"
    /\ Cardinality(students) = 2
    /\ "json" \in DOMAIN resp
    /\ resp.json.status = "success"
    /\ session["student_id"] = 2
    /\ \E s \in SelectStudent(req.ident[1]) : s.student_id = 2

\* C3: the session never holds a student_id and an admin_id at once.
C3_AtMostOneIdentity ==
    ~(SessionHas(session, "student_id") /\ SessionHas(session, "admin_id"))

\* C4: no request ends with a connection it opened still open.
C4_ConnectionsClosed == io.opened = io.closed /\ openConns = 0

\* C5: when the data layer fails during a request to an endpoint, the handler
\* answers the error payload carrying the text of the exception, and no exception
\* leaves the handler.
C5_FailuresHandled ==
    (req.handler \in Endpoints /\ io.exc # NoException)
        => /\ "json" \in DOMAIN resp
           /\ resp.json = [status |-> "error", message |-> Str(io.exc)]

\* C6: under the same database behaviour, a login with an unknown identifier and
\* a login with a stored identifier and a password that does not verify get the
\* same response and leave the same session, for students and for admins.
C6_FailuresIndistinguishable ==
    /\ \A unknown \in Rolls, known \in Rolls, p1 \in Passwords, p2 \in Passwords,
          fault \in Faults :
          (/\ SelectStudent(unknown) = {}
           /\ SelectStudent(known) # {}
           /\ StudentVerified(known, p2) = {})
            => /\ student_login(unknown, p1, fault).resp
                    = student_login(known, p2, fault).resp
               /\ student_login(unknown, p1, fault).session
                    = student_login(known, p2, fault).session
    /\ \A unknown \in LoginUsernames, known \in LoginUsernames,
          p1 \in LoginPasswords, p2 \in LoginPasswords, fault \in Faults :
          (/\ SelectAdmin(unknown) = {}
           /\ SelectAdmin(known) # {}
           /\ AdminVerified(known, p2) = {})
            => /\ admin_login(unknown, p1, fault).resp
                    = admin_login(known, p2, fault).resp
               /\ admin_login(unknown, p1, fault).session
                    = admin_login(known, p2, fault).session

C6_Witness ==
    /\ req.handler = "student_login"
    /\ resp = InvalidCredentials
    /\ SelectStudent(req.ident[1]) # {}
    /\ \E unknown \in Rolls : SelectStudent(unknown) = {}
    /\ \E known \in LoginUsernames : SelectAdmin(known) # {}
    /\ \E unknown \in LoginUsernames : SelectAdmin(unknown) = {}

\* C7: the store never holds two feedback rows for one (student_id,
\* assignment_id) pair, and a submission for a pair that already has a row gets
\* the error payload, not the success payload, and leaves the feedback rows as
\* they were.
C7_OneFeedbackPerPair ==
    /\ [](\A p \in DOMAIN feedback : feedback[p] <= 1)
    /\ [][req'.handler = "student_feedback" =>
           \A assignment_id \in Assignments, fault \in Faults :
            (/\ StudentFeedbackReq(assignment_id, fault)
             /\ SessionHas(session, "student_id")
             /\ FeedbackExists(session["student_id"], assignment_id))
                => /\ resp'.json.status = "error"
                   /\ resp' # SuccessPayload("Feedback submitted successfully")
                   /\ feedback' = feedback]_vars

C7_Witness ==
    /\ req.handler = "student_feedback"
    /\ io.exc = DuplicateEntry
    /\ resp = ErrorPayload(Str(DuplicateEntry))
    /\ feedback[<<session["student_id"], req.ident[1]>>] = 1

\* create_admin rejects what was typed before it connects
InvalidAdminInput(raw_username, raw_password, raw_confirm) ==
    \/ Strip(raw_username) = <<>>
    \/ Strip(raw_password) = <<>>
    \/ Strip(raw_password) # Strip(raw_confirm)

UniqueUsernames == \A a, b \in admins : a.username = b.username => a = b

AlreadyExists == Printed("[Error] An admin with the username already exists.")

\* C8 as stated: no two admin rows share a username; a run whose username is
\* already stored inserts nothing and prints the "already exists" error; a run
\* with an empty username, an empty password or a password unlike its
\* confirmation opens no connection and inserts nothing.
C8_DuplicateAlwaysReported ==
    /\ []UniqueUsernames
    /\ [][req'.handler = "create_admin" =>
           \A raw_username \in {req'.ident[1]}, raw_password \in RawPasswords,
              raw_confirm \in RawConfirms, salt \in Salts, fault \in Faults :
            \/ ~CreateAdminRun(raw_username, raw_password, raw_confirm, salt, fault)
            \/ IF InvalidAdminInput(raw_username, raw_password, raw_confirm)
               THEN io'.opened = 0 /\ admins' = admins
               ELSE AdminUsernameTaken(Strip(raw_username))
                       => admins' = admins /\ resp' = AlreadyExists]_vars

\* C8 amended: no two admin rows share a username; a run with valid input whose
\* username is already stored inserts nothing, and prints the "already exists"
\* error when its INSERT reaches the database (the connection opens and no other
\* database error is raised); a run with an empty username, an empty password or
\* a password unlike its confirmation opens no connection and inserts nothing.
C8_DuplicateRejected ==
    /\ []UniqueUsernames
    /\ [][req'.handler = "create_admin" =>
           \A raw_username \in {req'.ident[1]}, raw_password \in RawPasswords,
              raw_confirm \in RawConfirms, salt \in Salts, fault \in Faults :
            \/ IF InvalidAdminInput(raw_username, raw_password, raw_confirm)
               THEN io'.opened = 0 /\ admins' = admins
               ELSE AdminUsernameTaken(Strip(raw_username))
                       => /\ admins' = admins
                          /\ fault = "none" => resp' = AlreadyExists
            \/ ~CreateAdminRun(raw_username, raw_password, raw_confirm, salt, fault)]_vars

C8_Witness ==
    /\ req.handler = "create_admin"
    /\ resp = AlreadyExists
    /\ Cardinality(admins) = 2
    /\ req.ident[1] # Strip(req.ident[1])

\* C9 as stated: every request to an endpoint issues exactly one statement or
\* procedure call on one connection.
C9_ExactlyOneCall ==
    req.handler \in Endpoints => io.stmts = 1 /\ io.opened = 1

\* C9 amended: a request to an endpoint other than /api/dropdowns opens at most
\* one connection and issues at most one statement or procedure call, exactly
\* one when it opens a connection; a request to /api/dropdowns opens at most one
\* connection and issues up to three statements on it, all three when none
\* raises.
C9_CallsPerRequest ==
    req.handler \in Endpoints =>
        /\ io.opened <= 1
        /\ IF req.handler = "get_dropdown_data"
           THEN /\ io.stmts <= 3
                /\ (io.opened = 1 /\ io.exc = NoException) => io.stmts = 3
           ELSE /\ io.stmts <= 1
                /\ io.opened = 1 => io.stmts = 1

C9_Witness ==
    /\ req.handler = "get_dropdown_data"
    /\ io.stmts = 3
    /\ io.opened = 1
    /\ io.closed = 1

\* C10: once the session holds a student_id, every later request leaves a
\* student_id in it: the same one, or the one a successful student login just
\* set; and no request to a student endpoint on that session is answered 401
\* "Not logged in".
C10_SessionPersists ==
    [][SessionHas(session, "student_id") =>
        /\ SessionHas(session', "student_id")
        /\ \/ session'["student_id"] = session["student_id"]
           \/ /\ req'.handler = "student_login"
              /\ "json" \in DOMAIN resp'
              /\ resp'.json.status = "success"
              /\ resp'.json.student_id = session'["student_id"]
        /\ req'.handler \in StudentEndpoints => resp' # NotLoggedIn]_vars

C10_Witness ==
    /\ req.handler = "admin_login"
    /\ resp = SuccessPayload("Login successful")
    /\ SessionHas(session, "student_id")
    /\ SessionHas(session, "admin_id")
    /\ session["student_id"] = 2

=============================================================================
